---- MODULE Spec2Model ----
(***************************************************************************)
(* A model of the memory store of adri1wald/mem (src/src/store.rs).        *)
(*                                                                         *)
(* The backing file is a sequence of serialization tokens, every open      *)
(* MemoryStore holds a File handle with its own cursor (file offset), and  *)
(* insert / get / list are the public methods of MemoryStore.  The          *)
(* embedding provider and the I/O layer are the environment: each call     *)
(* takes the provider's response and the outcome of the file writes as     *)
(* inputs.  f32 components are small integers (exactly representable, so   *)
(* products, sums and comparisons are exact).                              *)
(***************************************************************************)
EXTENDS Integers, Sequences, FiniteSets, TLC

\* ---------------------------------------------------------------- bounds
\* MemoryStore::EMBEDDING_SIZE is 1536 in the source; the model scales it
\* down so that vectors can be enumerated.
EMBEDDING_SIZE == 2
\* The largest number of records a collection grows to.
MaxMemories == 2
\* The largest `count` passed to list.
MaxCount == 3
\* The values of a vector component.
Coords == {0, 1}

\* The open MemoryStore values (one File handle each) sharing the data file.
Stores == {"s1", "s2"}
\* The (memory, description) arguments of insert.
InsertArgs == { <<"buy milk", "grocery reminder">>, <<"call mom", "family reminder">> }
\* The description argument of get and list.
Descriptions == {"grocery reminder"}
Counts == 0..MaxCount

Min(a, b) == IF a < b THEN a ELSE b

\* All vectors of length n.
Vectors(n) == [1..n -> Coords]

\* What the provider can answer to one embedding request: a failure, a
\* vector of the configured size, or a vector of another size.
ProviderResponses ==
    { [ok |-> FALSE, embedding |-> <<>>] }
    \cup { [ok |-> TRUE, embedding |-> v] : v \in Vectors(EMBEDDING_SIZE) }
    \cup { [ok |-> TRUE, embedding |-> [i \in 1..(EMBEDDING_SIZE - 1) |-> 1]],
           [ok |-> TRUE, embedding |-> [i \in 1..(EMBEDDING_SIZE + 1) |-> 1]] }

\* The placeholder recorded when the provider was not called.
NoResponse == [ok |-> FALSE, embedding |-> <<>>]

\* ------------------------------------------------------------ data types
\* struct Memory { value, description }
Memory(value, description) == [value |-> value, description |-> description]

\* Memory::into_scored
into_scored(memory, score) ==
    [value |-> memory.value, description |-> memory.description, score |-> score]

\* EmbeddingMatrix = Array2<f32>: a shape and the elements in row-major order.
EmbeddingMatrix(nrows, ncols, data) == [nrows |-> nrows, ncols |-> ncols, data |-> data]

\* struct MemoryDB { memories, embeddings }
MemoryDB(memories, embeddings) == [memories |-> memories, embeddings |-> embeddings]

\* Array2::zeros((0, EMBEDDING_SIZE)) with no memories: the db of an empty file.
EmptyDB == MemoryDB(<<>>, EmbeddingMatrix(0, EMBEDDING_SIZE, <<>>))

\* Row i of an embedding matrix.
Row(E, i) == [j \in 1..E.ncols |-> E.data[(i - 1) * E.ncols + j]]

\* Array2::push_row mutated: the new row overwrites the last one.
push_row_overwrite(E, row) ==
    IF E.nrows = 0
    THEN EmbeddingMatrix(1, E.ncols, row)
    ELSE EmbeddingMatrix(E.nrows, E.ncols, SubSeq(E.data, 1, (E.nrows - 1) * E.ncols) \o row)

\* Array2::push_row, for a row of E.ncols elements (the caller checks the shape).
push_row(E, row) == EmbeddingMatrix(E.nrows + 1, E.ncols, E.data \o row)

\* ---------------------------------------------------------- serialization
\* serde_json's output for a MemoryDB, as tokens:
\*   {"memories":[ M* ],"embeddings":{"v":1,"dim":[r,c],"data":[ F* ]}}
\* "{" opens the document, every record is one "memory" token, "embeddings"
\* carries the dim header, every f32 is one "f32" token, "}" closes.
Tok(t, s1, s2, n1, n2) == [t |-> t, s1 |-> s1, s2 |-> s2, n1 |-> n1, n2 |-> n2]

MemoryTokens(memories) ==
    [i \in 1..Len(memories) |-> Tok("memory", memories[i].value, memories[i].description, 0, 0)]

DataTokens(data) == [i \in 1..Len(data) |-> Tok("f32", "", "", data[i], 0)]

\* The serialization mutated: the records are written last-to-first.
Serialize_reversed(db) ==
    << Tok("{", "", "", 0, 0) >>
    \o [i \in 1..Len(db.memories) |->
            Tok("memory", db.memories[Len(db.memories) + 1 - i].value,
                db.memories[Len(db.memories) + 1 - i].description, 0, 0)]
    \o << Tok("embeddings", "", "", db.embeddings.nrows, db.embeddings.ncols) >>
    \o DataTokens(db.embeddings.data)
    \o << Tok("}", "", "", 0, 0) >>

\* serde_json::to_writer(&self.data_file, db)
Serialize(db) ==
    << Tok("{", "", "", 0, 0) >>
    \o MemoryTokens(db.memories)
    \o << Tok("embeddings", "", "", db.embeddings.nrows, db.embeddings.ncols) >>
    \o DataTokens(db.embeddings.data)
    \o << Tok("}", "", "", 0, 0) >>

\* The number of consecutive tokens of type t in toks from position p on.
RECURSIVE RunLen(_, _, _)
RunLen(toks, p, t) ==
    IF p > Len(toks) \/ toks[p].t # t THEN 0 ELSE 1 + RunLen(toks, p + 1, t)

ParseError(consumed) == [ok |-> FALSE, db |-> EmptyDB, consumed |-> consumed]

\* serde_json::from_reader on the tokens that follow the cursor: the parsed
\* MemoryDB and the number of tokens read from the file.  A token that does
\* not fit the grammar is read before the error is raised; reaching the end
\* of the file inside the document is an error ("EOF while parsing"); the
\* embeddings fail to build when the data does not fill the shape; tokens
\* after the closing "}" are an error ("trailing characters").
from_reader(toks) ==
    LET n == Len(toks)
        k == RunLen(toks, 2, "memory")
        p == 2 + k
        j == RunLen(toks, p + 1, "f32")
        e == p + j + 1
    IN  IF n = 0 THEN ParseError(0)
        ELSE IF toks[1].t # "{" THEN ParseError(1)
        ELSE IF p > n THEN ParseError(n)
        ELSE IF toks[p].t # "embeddings" THEN ParseError(p)
        ELSE IF j # toks[p].n1 * toks[p].n2 THEN ParseError(Min(e, n))
        ELSE IF e > n THEN ParseError(n)
        ELSE IF toks[e].t # "}" THEN ParseError(e)
        ELSE IF e < n THEN ParseError(e + 1)
        ELSE [ok |-> TRUE,
              db |-> MemoryDB([i \in 1..k |-> Memory(toks[1 + i].s1, toks[1 + i].s2)],
                              EmbeddingMatrix(toks[p].n1, toks[p].n2,
                                              [i \in 1..j |-> toks[p + i].n1])),
              consumed |-> n]

\* The tokens of file f from offset c to the end (none at or past the end).
FromCursor(f, c) == IF c >= Len(f) THEN <<>> ELSE SubSeq(f, c + 1, Len(f))

\* load_db mutated: the file is always parsed, also when it is empty.
load_db_always_parse(f, c) ==
    LET r == from_reader(FromCursor(f, c))
    IN  [ok |-> r.ok, db |-> r.db, cursor |-> c + r.consumed]

\* MemoryStore::load_db on file content f through a handle at offset c: an
\* empty file is a new db and is not read; otherwise the document is read
\* from the handle's current offset.
load_db(f, c) ==
    IF Len(f) = 0
    THEN [ok |-> TRUE, db |-> EmptyDB, cursor |-> c]
    ELSE LET r == from_reader(FromCursor(f, c))
         IN  [ok |-> r.ok, db |-> r.db, cursor |-> c + r.consumed]

\* The outcomes of the three fallible steps of save_db for a document of
\* len tokens: all succeed, set_len fails, seek fails, or the write fails
\* after k < len tokens reached the file.  A call that never reaches save_db
\* (len = 0) takes no write outcome as input.
IoOutcomes(len) ==
    IF len = 0
    THEN { [fail |-> "none", k |-> 0] }
    ELSE { [fail |-> x, k |-> 0] : x \in {"none", "set_len", "seek"} }
         \cup { [fail |-> "write", k |-> k] : k \in 0..(len - 1) }

\* The gap the file system leaves between the old end of a file and a
\* write or a set_len beyond it: n zero tokens.
Hole(n) == [i \in 1..n |-> Tok("nul", "", "", 0, 0)]

\* File::set_len(n) on content f (the handle's offset does not move).
set_len(f, n) == IF n <= Len(f) THEN SubSeq(f, 1, n) ELSE f \o Hole(n - Len(f))

\* Write for &File: toks written at offset c of content f; the content
\* before c stays (with a gap when c is past the end), and so does what
\* lies after the written tokens.
write_at(f, c, toks) ==
    (IF c <= Len(f) THEN SubSeq(f, 1, c) ELSE f \o Hole(c - Len(f)))
    \o toks
    \o (IF c + Len(toks) < Len(f) THEN SubSeq(f, c + Len(toks) + 1, Len(f)) ELSE <<>>)

\* save_db mutated: the document is written at the handle's offset, without
\* the seek to the start.
save_db_no_seek(f, c, db, io) ==
    LET doc == Serialize(db)
    IN  CASE io.fail = "set_len" -> [ok |-> FALSE, file |-> f, cursor |-> c]
          [] io.fail = "seek"    -> [ok |-> FALSE, file |-> set_len(f, 0), cursor |-> c]
          [] io.fail = "write"   ->
                [ok |-> FALSE, file |-> write_at(set_len(f, 0), c, SubSeq(doc, 1, io.k)),
                 cursor |-> c + io.k]
          [] OTHER               ->
                [ok |-> TRUE, file |-> write_at(set_len(f, 0), c, doc), cursor |-> c + Len(doc)]

\* MemoryStore::save_db: set_len(0), seek(Start(0)), to_writer.
save_db(f, c, db, io) ==
    LET doc == Serialize(db)
    IN  CASE io.fail = "set_len" -> [ok |-> FALSE, file |-> f, cursor |-> c]
          [] io.fail = "seek"    -> [ok |-> FALSE, file |-> set_len(f, 0), cursor |-> c]
          [] io.fail = "write"   ->
                [ok |-> FALSE, file |-> write_at(set_len(f, 0), 0, SubSeq(doc, 1, io.k)),
                 cursor |-> io.k]
          [] OTHER               ->
                [ok |-> TRUE, file |-> write_at(set_len(f, 0), 0, doc), cursor |-> Len(doc)]

\* ------------------------------------------------------------- embedding
EmbedOk(v) == [ok |-> TRUE, embedding |-> v, err |-> ""]
EmbedErr(e) == [ok |-> FALSE, embedding |-> <<>>, err |-> e]

\* embed mutated: the size of the returned vector is not checked.
embed_unchecked(resp) ==
    IF ~resp.ok
    THEN EmbedErr("Failed to get embedding from OpenAI API.")
    ELSE EmbedOk(resp.embedding)

\* MemoryStore::embed, for the provider's response resp to the request.
embed(resp) ==
    IF ~resp.ok
    THEN EmbedErr("Failed to get embedding from OpenAI API.")
    ELSE IF Len(resp.embedding) # EMBEDDING_SIZE
    THEN EmbedErr("Embedding size is not correct.")
    ELSE EmbedOk(resp.embedding)

\* --------------------------------------------------------------- ranking
RECURSIVE SumProducts(_, _, _)
SumProducts(u, v, j) ==
    IF j > Len(u) THEN 0 ELSE u[j] * v[j] + SumProducts(u, v, j + 1)

RECURSIVE SumSquaredDiffs(_, _, _)
SumSquaredDiffs(u, v, j) ==
    IF j > Len(u) THEN 0
    ELSE (u[j] - v[j]) * (u[j] - v[j]) + SumSquaredDiffs(u, v, j + 1)

\* dot mutated: the squared Euclidean distance of every row to the query.
dot_distance(E, q) == [i \in 1..E.nrows |-> SumSquaredDiffs(Row(E, i), q, 1)]

\* db.embeddings.dot(&query_embedding), for q of E.ncols elements: the
\* matrix-vector product, one dot product per row.
dot(E, q) == [i \in 1..E.nrows |-> SumProducts(Row(E, i), q, 1)]

\* Iterator::max_by folds the elements left to right and keeps the current
\* best only when it compares Greater than the next element.
RECURSIVE max_by_fold(_, _, _)
max_by_fold(xs, best, i) ==
    IF i > Len(xs) THEN best
    ELSE max_by_fold(xs, IF xs[best] > xs[i] THEN best ELSE i, i + 1)

RECURSIVE max_by_fold_first(_, _, _)
max_by_fold_first(xs, best, i) ==
    IF i > Len(xs) THEN best
    ELSE max_by_fold_first(xs, IF xs[best] >= xs[i] THEN best ELSE i, i + 1)

\* max_by mutated: the current best is also kept when the next is Equal.
max_by_first(xs) == max_by_fold_first(xs, 1, 2)

\* dot_products.iter().enumerate().max_by(partial_cmp).map(|(i, _)| i), for
\* a non-empty xs: the index of the maximum.
max_by(xs) == max_by_fold(xs, 1, 2)

\* The (score, i) pairs of list.
ScoreIndexPairs(dots) == [i \in 1..Len(dots) |-> [score |-> dots[i], i |-> i]]

\* Where a stable sort places x in the sorted sequence: before the first
\* element that the comparator b.partial_cmp(a) orders after x, which is the
\* first element with a smaller score.
RECURSIVE InsertionPoint(_, _, _)
InsertionPoint(sorted, x, p) ==
    IF p > Len(sorted) \/ x.score > sorted[p].score THEN p
    ELSE InsertionPoint(sorted, x, p + 1)

RECURSIVE InsertionPointUnstable(_, _, _)
InsertionPointUnstable(sorted, x, p) ==
    IF p > Len(sorted) \/ x.score >= sorted[p].score THEN p
    ELSE InsertionPointUnstable(sorted, x, p + 1)

InsertAt(seq, p, x) == SubSeq(seq, 1, p - 1) \o <<x>> \o SubSeq(seq, p, Len(seq))

RECURSIVE sort_by_from(_, _, _)
sort_by_from(pairs, sorted, i) ==
    IF i > Len(pairs) THEN sorted
    ELSE sort_by_from(pairs, InsertAt(sorted, InsertionPoint(sorted, pairs[i], 1), pairs[i]), i + 1)

RECURSIVE sort_by_unstable_from(_, _, _)
sort_by_unstable_from(pairs, sorted, i) ==
    IF i > Len(pairs) THEN sorted
    ELSE sort_by_unstable_from(
             pairs, InsertAt(sorted, InsertionPointUnstable(sorted, pairs[i], 1), pairs[i]), i + 1)

\* sort_by mutated: a sort that does not keep equal scores in their order.
sort_by_unstable(pairs) == sort_by_unstable_from(pairs, <<>>, 1)

\* score_index_pairs.sort_by(|(a, _), (b, _)| b.partial_cmp(a).unwrap()):
\* slice::sort_by is a stable sort; the comparator orders by descending score.
sort_by(pairs) == sort_by_from(pairs, <<>>, 1)

\* truncate mutated: the last count elements are kept.
truncate_tail(seq, count) ==
    IF count >= Len(seq) THEN seq ELSE SubSeq(seq, Len(seq) - count + 1, Len(seq))

\* Vec::truncate(count)
truncate(seq, count) == IF count >= Len(seq) THEN seq ELSE SubSeq(seq, 1, count)

\* ------------------------------------------------------------ operations
LoadContext == "Failed to load database from file."
InsertEmbedContext == "Failed to get memory description embedding."
QueryEmbedContext == "Failed to get query embedding."
SaveContext == "Failed to save database to file."

\* What a call leaves behind: the file, the handle's cursor, whether the
\* provider was called, how the call ended ("ok", "err" for an Err value,
\* "panic"), the error's context and cause, the returned memories (get's
\* Option is a sequence of at most one) and the db handed to save_db, if any.
Outcome(f, c, called, status, context, cause, items, saved) ==
    [file |-> f, cursor |-> c, called |-> called, status |-> status,
     context |-> context, cause |-> cause, items |-> items, saved |-> saved]

\* insert mutated: the file is truncated for the rewrite before the
\* embedding is requested.
InsertOutcome_truncate_first(f, c, memory, description, resp, io) ==
    LET l == load_db(f, c)
        e == embed(resp)
        db == MemoryDB(Append(l.db.memories, Memory(memory, description)),
                       push_row(l.db.embeddings, e.embedding))
        sv == save_db(f, l.cursor, db, io)
    IN  IF ~l.ok
        THEN Outcome(f, l.cursor, FALSE, "err", LoadContext, "parse", <<>>, <<>>)
        ELSE IF ~e.ok
        THEN Outcome(<<>>, l.cursor, TRUE, "err", InsertEmbedContext, e.err, <<>>, <<>>)
        ELSE IF Len(e.embedding) # l.db.embeddings.ncols
        THEN Outcome(f, l.cursor, TRUE, "panic", "", "dimension mismatch", <<>>, <<>>)
        ELSE IF ~sv.ok
        THEN Outcome(sv.file, sv.cursor, TRUE, "err", SaveContext, io.fail, <<>>, <<db>>)
        ELSE Outcome(sv.file, sv.cursor, TRUE, "ok", "", "", <<>>, <<db>>)

\* MemoryStore::insert(memory, description) on file content f through a
\* handle at offset c, when the provider answers resp and the writes of
\* save_db end as io.
InsertOutcome(f, c, memory, description, resp, io) ==
    LET l == load_db(f, c)
        e == embed(resp)
        db == MemoryDB(Append(l.db.memories, Memory(memory, description)),
                       push_row(l.db.embeddings, e.embedding))
        sv == save_db(f, l.cursor, db, io)
    IN  IF ~l.ok
        THEN Outcome(f, l.cursor, FALSE, "err", LoadContext, "parse", <<>>, <<>>)
        ELSE IF ~e.ok
        THEN Outcome(f, l.cursor, TRUE, "err", InsertEmbedContext, e.err, <<>>, <<>>)
        ELSE IF Len(e.embedding) # l.db.embeddings.ncols
        THEN Outcome(f, l.cursor, TRUE, "panic", "", "dimension mismatch", <<>>, <<>>)
        ELSE IF ~sv.ok
        THEN Outcome(sv.file, sv.cursor, TRUE, "err", SaveContext, io.fail, <<>>, <<db>>)
        ELSE Outcome(sv.file, sv.cursor, TRUE, "ok", "", "", <<>>, <<db>>)

\* get mutated: a file that does not load is reset to an empty file.
GetOutcome_reset(f, c, resp) ==
    LET l == load_db(f, c)
        e == embed(resp)
        dot_products == dot(l.db.embeddings, e.embedding)
        max_index == max_by(dot_products)
    IN  IF ~l.ok
        THEN Outcome(<<>>, l.cursor, FALSE, "err", LoadContext, "parse", <<>>, <<>>)
        ELSE IF Len(l.db.memories) = 0
        THEN Outcome(f, l.cursor, FALSE, "ok", "", "", <<>>, <<>>)
        ELSE IF ~e.ok
        THEN Outcome(f, l.cursor, TRUE, "err", QueryEmbedContext, e.err, <<>>, <<>>)
        ELSE IF Len(e.embedding) # l.db.embeddings.ncols
        THEN Outcome(f, l.cursor, TRUE, "panic", "", "incompatible shapes", <<>>, <<>>)
        ELSE IF l.db.embeddings.nrows = 0
        THEN Outcome(f, l.cursor, TRUE, "panic", "", "unwrap on None", <<>>, <<>>)
        ELSE IF max_index > Len(l.db.memories)
        THEN Outcome(f, l.cursor, TRUE, "panic", "", "index out of bounds", <<>>, <<>>)
        ELSE Outcome(f, l.cursor, TRUE, "ok", "", "",
                     << into_scored(l.db.memories[max_index], dot_products[max_index]) >>, <<>>)

\* MemoryStore::get(description) on file content f through a handle at
\* offset c, when the provider answers resp.
GetOutcome(f, c, resp) ==
    LET l == load_db(f, c)
        e == embed(resp)
        dot_products == dot(l.db.embeddings, e.embedding)
        max_index == max_by(dot_products)
    IN  IF ~l.ok
        THEN Outcome(f, l.cursor, FALSE, "err", LoadContext, "parse", <<>>, <<>>)
        ELSE IF Len(l.db.memories) = 0
        THEN Outcome(f, l.cursor, FALSE, "ok", "", "", <<>>, <<>>)
        ELSE IF ~e.ok
        THEN Outcome(f, l.cursor, TRUE, "err", QueryEmbedContext, e.err, <<>>, <<>>)
        ELSE IF Len(e.embedding) # l.db.embeddings.ncols
        THEN Outcome(f, l.cursor, TRUE, "panic", "", "incompatible shapes", <<>>, <<>>)
        ELSE IF l.db.embeddings.nrows = 0
        THEN Outcome(f, l.cursor, TRUE, "panic", "", "unwrap on None", <<>>, <<>>)
        ELSE IF max_index > Len(l.db.memories)
        THEN Outcome(f, l.cursor, TRUE, "panic", "", "index out of bounds", <<>>, <<>>)
        ELSE Outcome(f, l.cursor, TRUE, "ok", "", "",
                     << into_scored(l.db.memories[max_index], dot_products[max_index]) >>, <<>>)

\* MemoryStore::list(description, count) on file content f through a handle
\* at offset c, when the provider answers resp.
ListOutcome(f, c, count, resp) ==
    LET l == load_db(f, c)
        e == embed(resp)
        dot_products == dot(l.db.embeddings, e.embedding)
        score_index_pairs == truncate(sort_by(ScoreIndexPairs(dot_products)), count)
    IN  IF ~l.ok
        THEN Outcome(f, l.cursor, FALSE, "err", LoadContext, "parse", <<>>, <<>>)
        ELSE IF Len(l.db.memories) = 0
        THEN Outcome(f, l.cursor, FALSE, "ok", "", "", <<>>, <<>>)
        ELSE IF ~e.ok
        THEN Outcome(f, l.cursor, TRUE, "err", QueryEmbedContext, e.err, <<>>, <<>>)
        ELSE IF Len(e.embedding) # l.db.embeddings.ncols
        THEN Outcome(f, l.cursor, TRUE, "panic", "", "incompatible shapes", <<>>, <<>>)
        ELSE IF \E k \in 1..Len(score_index_pairs) :
                    score_index_pairs[k].i > Len(l.db.memories)
        THEN Outcome(f, l.cursor, TRUE, "panic", "", "index out of bounds", <<>>, <<>>)
        ELSE Outcome(f, l.cursor, TRUE, "ok", "", "",
                     [k \in 1..Len(score_index_pairs) |->
                         into_scored(l.db.memories[score_index_pairs[k].i],
                                     score_index_pairs[k].score)],
                     <<>>)

\* ------------------------------------------------------------------ state
VARIABLES
    file,      \* the content of the data file: a sequence of tokens
    cursor,    \* cursor[s]: the file offset of the File handle of store s
    result,    \* the last call: its arguments, the provider's answer, its outcome
    inserted,  \* history: the records of the successful inserts since the
               \* file was last empty, in call order
    pending    \* pending[s]: the insert of store s that has loaded the db and
               \* got its embedding and has not yet saved, if any

vars == <<file, cursor, result, inserted, pending>>

Result(op, s, memory, description, count, resp, o) ==
    [op |-> op, store |-> s, memory |-> memory, description |-> description,
     count |-> count, resp |-> IF o.called THEN resp ELSE NoResponse,
     called |-> o.called, status |-> o.status, context |-> o.context,
     cause |-> o.cause, items |-> o.items, saved |-> o.saved]

NoOutcome == Outcome(<<>>, 0, FALSE, "ok", "", "", <<>>, <<>>)

\* No insert of the store is between its load and its save.
NoPending ==
    [active |-> FALSE, memory |-> "", description |-> "", db |-> EmptyDB, embedding |-> <<>>]

\* The data file is created empty and the stores open it at offset 0.
Init ==
    /\ file = <<>>
    /\ cursor = [s \in Stores |-> 0]
    /\ result = Result("with_options", "s1", "", "", 0, NoResponse, NoOutcome)
    /\ inserted = <<>>
    /\ pending = [s \in Stores |-> NoPending]

\* MemoryStore::load / with_options: store s is constructed anew around a
\* freshly opened File (OpenOptions read + write + create: offset 0, the
\* content kept).
with_options(s) ==
    /\ cursor[s] # 0
    /\ ~pending[s].active
    /\ cursor' = [cursor EXCEPT ![s] = 0]
    /\ result' = Result("with_options", s, "", "", 0, NoResponse, NoOutcome)
    /\ UNCHANGED <<file, inserted, pending>>

\* The length of the document insert hands to save_db after load result l
\* and embedding result e; 0 when insert ends before save_db (the write
\* outcomes are then no input of the call).
SavedDocLen(l, e) ==
    IF l.ok /\ e.ok /\ Len(e.embedding) = l.db.embeddings.ncols
    THEN Len(Serialize(l.db)) + 1 + l.db.embeddings.ncols
    ELSE 0

\* store.insert(memory, description), the provider answering resp.  The
\* call is taken while the collection is below MaxMemories records.
insert(s, memory, description, resp) ==
    LET l == load_db(file, cursor[s])
    IN  /\ l.ok => Len(l.db.memories) < MaxMemories
        /\ \E io \in IoOutcomes(SavedDocLen(l, embed(resp))) :
              LET o == InsertOutcome(file, cursor[s], memory, description, resp, io)
              IN  /\ file' = o.file
                  /\ cursor' = [cursor EXCEPT ![s] = o.cursor]
                  /\ result' = Result("insert", s, memory, description, 0, resp, o)
                  /\ inserted' =
                        IF o.status = "ok" THEN Append(inserted, Memory(memory, description))
                        ELSE IF o.file # file THEN <<>>
                        ELSE inserted
                  /\ UNCHANGED pending

\* store.get(description)
get(s, description, resp) ==
    LET o == GetOutcome(file, cursor[s], resp)
    IN  /\ file' = o.file
        /\ cursor' = [cursor EXCEPT ![s] = o.cursor]
        /\ result' = Result("get", s, "", description, 0, resp, o)
        /\ UNCHANGED <<inserted, pending>>

\* store.list(description, count)
list(s, description, count, resp) ==
    LET o == ListOutcome(file, cursor[s], count, resp)
    IN  /\ file' = o.file
        /\ cursor' = [cursor EXCEPT ![s] = o.cursor]
        /\ result' = Result("list", s, "", description, count, resp, o)
        /\ UNCHANGED <<inserted, pending>>

\* One caller works through store s1, constructing it anew at will.
Next ==
    \/ with_options("s1")
    \/ \E a \in InsertArgs, resp \in ProviderResponses : insert("s1", a[1], a[2], resp)
    \/ \E d \in Descriptions, resp \in ProviderResponses : get("s1", d, resp)
    \/ \E d \in Descriptions, c \in Counts, resp \in ProviderResponses : list("s1", d, c, resp)

Spec == Init /\ [][Next]_vars

\* ------------------------------------------------------ concurrent writers
\* Two processes run insert on the same data file, each through its own
\* store.  An insert reads the file in load_db, waits for the provider in
\* embed, and writes the file in save_db; nothing is locked in between, so
\* the steps of the two inserts interleave.

\* insert mutated: the db handed to save_db is loaded again from the file
\* just before the save.
PendingDB_reload(f, p) ==
    MemoryDB(Append(load_db(f, 0).db.memories, Memory(p.memory, p.description)),
             push_row(load_db(f, 0).db.embeddings, p.embedding))

\* The db the pending insert p hands to save_db while the file holds f: the
\* db it loaded, with its row and its record pushed, whatever f holds by now.
PendingDB(f, p) ==
    MemoryDB(Append(p.db.memories, Memory(p.memory, p.description)),
             push_row(p.db.embeddings, p.embedding))

\* The writes of save_db all succeed.
NoFailure == [fail |-> "none", k |-> 0]

\* insert up to the call of save_db: load_db and embed.  A call that fails
\* or panics before save_db ends here.
insert_load(s, memory, description, resp) ==
    LET l == load_db(file, cursor[s])
        e == embed(resp)
        o == InsertOutcome(file, cursor[s], memory, description, resp, NoFailure)
    IN  /\ ~pending[s].active
        /\ l.ok => Len(l.db.memories) < MaxMemories
        /\ cursor' = [cursor EXCEPT ![s] = l.cursor]
        /\ IF SavedDocLen(l, e) = 0
           THEN /\ result' = Result("insert", s, memory, description, 0, resp, o)
                /\ UNCHANGED pending
           ELSE /\ pending' = [pending EXCEPT ![s] =
                                  [active |-> TRUE, memory |-> memory,
                                   description |-> description, db |-> l.db,
                                   embedding |-> e.embedding]]
                /\ UNCHANGED result
        /\ UNCHANGED <<file, inserted>>

\* The rest of insert: push_row, push and save_db, the writes ending as io.
insert_save(s, io) ==
    LET p == pending[s]
        db == PendingDB(file, p)
        sv == save_db(file, cursor[s], db, io)
        o == Outcome(sv.file, sv.cursor, TRUE, IF sv.ok THEN "ok" ELSE "err",
                     IF sv.ok THEN "" ELSE SaveContext, IF sv.ok THEN "" ELSE io.fail,
                     <<>>, <<db>>)
    IN  /\ p.active
        /\ io \in IoOutcomes(Len(Serialize(db)))
        /\ file' = sv.file
        /\ cursor' = [cursor EXCEPT ![s] = sv.cursor]
        /\ result' = Result("insert", s, p.memory, p.description, 0,
                            [ok |-> TRUE, embedding |-> p.embedding], o)
        /\ inserted' = IF sv.ok THEN Append(inserted, Memory(p.memory, p.description))
                       ELSE IF sv.file # file THEN <<>>
                       ELSE inserted
        /\ pending' = [pending EXCEPT ![s] = NoPending]

\* The two processes, each with the store it opened at its start; every
\* write succeeds here (the failures of save_db are inputs of the calls of
\* Next).
NextConcurrent ==
    \/ \E s \in Stores, a \in InsertArgs, resp \in ProviderResponses :
           insert_load(s, a[1], a[2], resp)
    \/ \E s \in Stores : insert_save(s, NoFailure)

SpecConcurrent == Init /\ [][NextConcurrent]_vars

\* ------------------------------------------------ data files found on open
\* The data file is any file at the configured path: besides the documents
\* insert writes, the store can find content that is no document, a document
\* whose embeddings have another number of rows than it has records, or one
\* written with another embedding size.
BuyMilk == Memory("buy milk", "grocery reminder")
Garbage == << Tok("garbage", "", "", 0, 0) >>
StoredDoc ==
    Serialize(MemoryDB(<<BuyMilk>>,
                       EmbeddingMatrix(1, EMBEDDING_SIZE, [i \in 1..EMBEDDING_SIZE |-> 1])))

DataFiles ==
    { <<>>,
      StoredDoc,
      Garbage,
      Garbage \o StoredDoc,
      StoredDoc \o Garbage,
      SubSeq(StoredDoc, 1, 3),
      Serialize(MemoryDB(<<BuyMilk>>, EmbeddingMatrix(0, EMBEDDING_SIZE, <<>>))),
      Serialize(MemoryDB(<<>>,
                         EmbeddingMatrix(1, EMBEDDING_SIZE, [i \in 1..EMBEDDING_SIZE |-> 1]))),
      Serialize(MemoryDB(<<BuyMilk>>,
                         EmbeddingMatrix(2, EMBEDDING_SIZE, [i \in 1..(2 * EMBEDDING_SIZE) |-> 1]))),
      Serialize(MemoryDB(<<BuyMilk>>,
                         EmbeddingMatrix(1, EMBEDDING_SIZE - 1, [i \in 1..(EMBEDDING_SIZE - 1) |-> 1]))),
      Serialize(MemoryDB(<<BuyMilk>>,
                         EmbeddingMatrix(1, EMBEDDING_SIZE + 1, [i \in 1..(EMBEDDING_SIZE + 1) |-> 1]))) }

\* The store is opened on a data file it finds.
InitFiles ==
    /\ file \in DataFiles
    /\ cursor = [s \in Stores |-> 0]
    /\ result = Result("with_options", "s1", "", "", 0, NoResponse, NoOutcome)
    /\ inserted = IF load_db(file, 0).ok THEN load_db(file, 0).db.memories ELSE <<>>
    /\ pending = [s \in Stores |-> NoPending]

SpecFiles == InitFiles /\ [][Next]_vars

\* ---------------------------------------------------------------- claims
\* The collection a freshly opened handle loads from the data file.
CurrentDB == load_db(file, 0)

\* The sum of the element-wise products of two vectors of equal length.
RECURSIVE DotProduct(_, _)
DotProduct(u, v) ==
    IF Len(u) = 0 THEN 0
    ELSE DotProduct(SubSeq(u, 1, Len(u) - 1), SubSeq(v, 1, Len(u) - 1)) + u[Len(u)] * v[Len(u)]

\* The score of every row of db against the query vector q.
Scores(db, q) == [i \in 1..db.embeddings.nrows |-> DotProduct(Row(db.embeddings, i), q)]

\* Row j comes before row i in the ranking: a higher score, or the same
\* score and an earlier place in storage.
Precedes(scores, j, i) ==
    scores[j] > scores[i] \/ (scores[j] = scores[i] /\ j < i)

Rank(scores, i) == Cardinality({ j \in 1..Len(scores) : Precedes(scores, j, i) })

MaxIndices(scores) == { i \in 1..Len(scores) : \A j \in 1..Len(scores) : scores[i] >= scores[j] }

Lowest(S) == CHOOSE i \in S : \A j \in S : i <= j
Highest(S) == CHOOSE i \in S : \A j \in S : i >= j

Unscored(items) == [k \in 1..Len(items) |-> Memory(items[k].value, items[k].description)]

Occurrences(seq, x) == Cardinality({ k \in 1..Len(seq) : seq[k] = x })

\* a and b hold the same elements, each as many times.
SameRecords(a, b) ==
    /\ Len(a) = Len(b)
    /\ \A k \in 1..Len(a) : Occurrences(a, a[k]) = Occurrences(b, a[k])

IsPrefix(a, b) == Len(a) <= Len(b) /\ \A k \in 1..Len(a) : a[k] = b[k]

ListReturned == result.op = "list" /\ result.status = "ok"
GetReturned == result.op = "get" /\ result.status = "ok"

\* C1 as stated: after successful inserts into an empty file, list with a
\* count of at least the number of records returns the records in insertion
\* order, value and description unchanged.
C1_ListInsertionOrder ==
    (ListReturned /\ result.count >= Len(inserted))
        => Unscored(result.items) = inserted

\* C1 amended: after successful inserts into an empty file the saved file
\* reloads, the reloaded collection holds the inserted records in insertion
\* order with value and description unchanged, and list with a count of at
\* least the number of records returns exactly those records, ordered by
\* descending score and not by insertion.
C1_RoundTrip ==
    /\ (result.op = "insert" /\ result.status = "ok") => CurrentDB.ok
    /\ CurrentDB.ok => CurrentDB.db.memories = inserted
    /\ (ListReturned /\ result.count >= Len(inserted))
          => /\ SameRecords(Unscored(result.items), inserted)
             /\ \A k \in 1..(Len(result.items) - 1) :
                    result.items[k].score >= result.items[k + 1].score

\* Two different records were inserted and list returned both, the later
\* one first.
C1_Witness ==
    /\ ListReturned
    /\ Len(inserted) = 2
    /\ inserted[1] # inserted[2]
    /\ Unscored(result.items) = << inserted[2], inserted[1] >>

\* C2: an insert that fails in load_db or in embed leaves the file's content
\* as it was, and insert reaches save_db only after load_db and embed succeeded.
C2_FailedInsertLeavesFile ==
    [][ /\ (result'.op = "insert" /\ result'.status = "err"
              /\ result'.context \in {LoadContext, InsertEmbedContext})
           => (file' = file /\ result'.saved = <<>>)
        /\ (result'.op = "insert" /\ result'.saved # <<>>)
           => (load_db(file, cursor[result'.store]).ok /\ embed(result'.resp).ok)
      ]_vars

\* An insert failed in embed while the file held a collection.
C2_Witness ==
    /\ result.op = "insert"
    /\ result.status = "err"
    /\ result.context = InsertEmbedContext
    /\ CurrentDB.ok
    /\ Len(CurrentDB.db.memories) > 0

\* C3: when the provider returns a vector whose length is not
\* EMBEDDING_SIZE, insert returns the size error and the file is unchanged.
C3_DimensionEnforced ==
    [][ (result'.op = "insert" /\ result'.called /\ result'.resp.ok
            /\ Len(result'.resp.embedding) # EMBEDDING_SIZE)
        => /\ result'.status = "err"
           /\ result'.context = InsertEmbedContext
           /\ result'.cause = "Embedding size is not correct."
           /\ result'.saved = <<>>
           /\ file' = file
      ]_vars

\* An insert got a vector of another size while the file held a collection.
C3_Witness ==
    /\ result.op = "insert"
    /\ result.called
    /\ result.resp.ok
    /\ Len(result.resp.embedding) # EMBEDDING_SIZE
    /\ Len(CurrentDB.db.memories) > 0

\* C4 as stated: when several rows share the maximum score, get returns the
\* first of them in storage order.
C4_GetFirstMaximum ==
    (GetReturned /\ result.called)
        => LET db == CurrentDB.db
               scores == Scores(db, result.resp.embedding)
               i == Lowest(MaxIndices(scores))
           IN  result.items = << into_scored(db.memories[i], scores[i]) >>

\* C4 amended: when several rows share the maximum score, get returns the
\* last of them in storage order (the one with the highest index).
C4_GetLastMaximum ==
    (GetReturned /\ result.called)
        => LET db == CurrentDB.db
               scores == Scores(db, result.resp.embedding)
               i == Highest(MaxIndices(scores))
           IN  result.items = << into_scored(db.memories[i], scores[i]) >>

\* get returned while two different records shared the maximum score.
C4_Witness ==
    /\ GetReturned
    /\ result.called
    /\ LET db == CurrentDB.db
           S == MaxIndices(Scores(db, result.resp.embedding))
       IN  /\ Cardinality(S) >= 2
           /\ db.memories[Lowest(S)] # db.memories[Highest(S)]

\* C5: on a non-empty collection get returns one stored memory, its score is
\* the dot product of its stored row with the query embedding, and no row
\* has a greater dot product; once the provider has returned a vector of
\* the configured size, get returns.
C5_GetMaxDotProduct ==
    /\ (GetReturned /\ Len(CurrentDB.db.memories) > 0)
          => LET db == CurrentDB.db
                 scores == Scores(db, result.resp.embedding)
             IN  /\ Len(result.items) = 1
                 /\ \E i \in 1..Len(db.memories) :
                        /\ result.items[1] = into_scored(db.memories[i], scores[i])
                        /\ \A j \in 1..Len(scores) : scores[i] >= scores[j]
    /\ (result.op = "get" /\ result.called /\ result.resp.ok
          /\ Len(result.resp.embedding) = EMBEDDING_SIZE)
          => result.status = "ok"

\* The scenario of the specification: rows [1,0] for "buy milk" and [0,1]
\* for "call mom", the query [1,0], and get returned "buy milk" with score 1.
C5_Witness ==
    /\ GetReturned
    /\ CurrentDB.db.memories = << Memory("buy milk", "grocery reminder"),
                                  Memory("call mom", "family reminder") >>
    /\ CurrentDB.db.embeddings.data = <<1, 0, 0, 1>>
    /\ result.resp.embedding = <<1, 0>>
    /\ result.items = << [value |-> "buy milk", description |-> "grocery reminder",
                          score |-> 1] >>

\* C6: on a non-empty collection of N records list returns min(count, N)
\* memories, the k-th being the record that k - 1 records precede in the
\* order by descending dot product, ties by storage order, with its dot
\* product as score.
C6_ListTopCount ==
    (ListReturned /\ Len(CurrentDB.db.memories) > 0)
        => LET db == CurrentDB.db
               scores == Scores(db, result.resp.embedding)
           IN  /\ Len(result.items) = Min(result.count, Len(db.memories))
               /\ \A k \in 1..Len(result.items) :
                      \E i \in 1..Len(db.memories) :
                          /\ Rank(scores, i) = k - 1
                          /\ result.items[k] = into_scored(db.memories[i], scores[i])

\* list returned two different records of equal score.
C6_Witness ==
    /\ ListReturned
    /\ Len(result.items) = 2
    /\ result.items[1].score = result.items[2].score
    /\ result.items[1] # result.items[2]

\* C7: with the file unchanged and the provider returning the same vector, a
\* second list(description, count) on the same store returns what the first
\* returned.
C7_RepeatedListSameResult ==
    [][ \A d \in Descriptions, c \in Counts, resp \in ProviderResponses :
          ( /\ ListReturned
            /\ result.description = d
            /\ result.count = c
            /\ result.called
            /\ result.resp = resp
            /\ list(result.store, d, c, resp) )
          => (result'.status = "ok" /\ result'.items = result.items)
      ]_vars

\* C8: on an empty file get and list return nothing without an error and
\* without calling the provider.
C8_EmptyStore ==
    (result.op \in {"get", "list"} /\ file = <<>>)
        => (result.status = "ok" /\ result.items = <<>> /\ ~result.called)

\* list was called with a positive count on a file emptied by a failed
\* save, through a handle whose offset is past the end.
C8_Witness ==
    /\ result.op = "list"
    /\ result.count > 0
    /\ file = <<>>
    /\ cursor[result.store] > 0

\* C9: what list returned for count is a prefix of what list returns for
\* every greater count on the same collection and query embedding, and
\* neither is longer than the collection.
C9_TruncationLaw ==
    ListReturned
        => \A c2 \in (result.count + 1)..(MaxCount + 1) :
               LET o2 == ListOutcome(file, 0, c2, result.resp)
               IN  /\ o2.status = "ok"
                   /\ IsPrefix(result.items, o2.items)
                   /\ Len(o2.items) <= Len(CurrentDB.db.memories)

\* list returned fewer memories than the collection holds.
C9_Witness ==
    /\ ListReturned
    /\ result.count = 1
    /\ Len(result.items) = 1
    /\ Len(CurrentDB.db.memories) = 2

\* C10: every collection that loads from the file, and every collection
\* handed to save_db, has as many embedding rows as memory records.
C10_LengthInvariant ==
    /\ CurrentDB.ok
          => Len(CurrentDB.db.memories) = CurrentDB.db.embeddings.nrows
    /\ result.saved # <<>>
          => /\ Len(result.saved[1].memories) = result.saved[1].embeddings.nrows
             /\ Len(result.saved[1].embeddings.data)
                    = result.saved[1].embeddings.nrows * result.saved[1].embeddings.ncols

\* An insert saved a collection of two records and it is in the file.
C10_Witness ==
    /\ result.op = "insert"
    /\ result.saved # <<>>
    /\ Len(result.saved[1].memories) = 2
    /\ CurrentDB.ok
    /\ CurrentDB.db = result.saved[1]

\* C13: after a save_db that succeeded the file holds the serialization of
\* the saved collection from offset 0 on and nothing else, whatever the
\* file held and wherever the handle's offset was before; a freshly opened
\* handle loads the saved collection from it.
C13_SaveReplacesContent ==
    (result.op = "insert" /\ result.status = "ok")
        => /\ file = Serialize(result.saved[1])
           /\ file[1].t = "{"
           /\ \A k \in 1..Len(file) : file[k].t # "nul"
           /\ CurrentDB.ok
           /\ CurrentDB.db = result.saved[1]

\* A save succeeded over a file that held a record, through a handle whose
\* offset the preceding load had moved to the end of that file.
C13_Witness ==
    /\ result.op = "insert"
    /\ result.status = "ok"
    /\ Len(result.saved[1].memories) = 2
    /\ cursor[result.store] = Len(file)

\* The collection a freshly opened handle loads from the file after the step.
NextDB == load_db(file', 0)

\* The calls of the store's three operations.
Operations == {"insert", "get", "list"}

\* C15: whenever the file holds a collection, the load_db of the next call
\* on a store yields it, whatever ran earlier on that store's handle: the
\* call does not fail in load_db.
C15_LoadYieldsStoredCollection ==
    [][ (CurrentDB.ok /\ result'.op \in Operations)
        => ~(result'.status = "err" /\ result'.context = LoadContext)
      ]_vars

\* What C16 says of a successful insert: the persisted collection is the
\* one before it with the record (memory, description) and the provider's
\* vector appended.
InsertAppends ==
    (result'.op = "insert" /\ result'.status = "ok")
        => LET old == CurrentDB.db
               new == NextDB
           IN  /\ new.ok
               /\ new.db.memories
                    = Append(old.memories, Memory(result'.memory, result'.description))
               /\ new.db.embeddings.nrows = old.embeddings.nrows + 1
               /\ new.db.embeddings.ncols = old.embeddings.ncols
               /\ new.db.embeddings.data = old.embeddings.data \o result'.resp.embedding

\* The records and rows of the collection in the file stay, at their indices.
StoredRecordsKept ==
    /\ NextDB.ok
    /\ IsPrefix(CurrentDB.db.memories, NextDB.db.memories)
    /\ IsPrefix(CurrentDB.db.embeddings.data, NextDB.db.embeddings.data)

C18_ReadOnlyQueries ==
    [][ (result'.op \in {"get", "list"}) => (file' = file /\ result'.saved = <<>>) ]_vars

\* A get failed in the provider call on a file that holds a collection.
C18_Witness ==
    /\ result.op = "get"
    /\ result.status = "err"
    /\ result.context = QueryEmbedContext
    /\ Len(CurrentDB.db.memories) > 0

\* What list(description, 1) returns through a fresh handle for the query
\* embedding of the last call.
ListOne == ListOutcome(file, 0, 1, result.resp)

\* C19 as stated: on a non-empty collection get returns the memory and the
\* score of the first element of list(description, 1), also when several
\* rows tie for the maximum score.
C19_GetAgreesWithList ==
    (GetReturned /\ result.called)
        => (ListOne.status = "ok" /\ result.items = ListOne.items)

\* C19 amended: on a non-empty collection get returns the score of the first
\* element of list(description, 1), and the same memory when one row alone
\* has the maximum score; when several rows tie, get returns the last of
\* them and list the first.
C19_GetAgreesWithListUnlessTied ==
    (GetReturned /\ result.called)
        => LET db == CurrentDB.db
               S == MaxIndices(Scores(db, result.resp.embedding))
           IN  /\ ListOne.status = "ok"
               /\ Len(ListOne.items) = 1
               /\ result.items[1].score = ListOne.items[1].score
               /\ Cardinality(S) = 1 => result.items = ListOne.items
               /\ result.items[1] = into_scored(db.memories[Highest(S)], result.items[1].score)
               /\ ListOne.items[1] = into_scored(db.memories[Lowest(S)], result.items[1].score)

\* get returned the second of two records, the only one with the maximum score.
C19_Witness ==
    /\ GetReturned
    /\ result.called
    /\ Len(CurrentDB.db.memories) = 2
    /\ MaxIndices(Scores(CurrentDB.db, result.resp.embedding)) = {2}
    /\ CurrentDB.db.memories[1] # CurrentDB.db.memories[2]

\* C11: when the file holds non-empty content that does not load as a
\* collection, every insert, get and list returns the load error: no panic,
\* and the file is not treated as an empty collection.
C11_CorruptFileFails ==
    [][ (file # <<>> /\ ~CurrentDB.ok /\ result'.op \in Operations)
        => (result'.status = "err" /\ result'.context = LoadContext)
      ]_vars

\* C12: when the file loads as a collection whose number of records differs
\* from its number of embedding rows, every insert, get and list returns the
\* load error and does not proceed.
C12_LengthMismatchRejected ==
    [][ (CurrentDB.ok /\ Len(CurrentDB.db.memories) # CurrentDB.db.embeddings.nrows
            /\ result'.op \in Operations)
        => (result'.status = "err" /\ result'.context = LoadContext)
      ]_vars

\* C17: when the loaded collection's embedding matrix has another number of
\* columns than the vector embed returned has elements, insert returns an
\* error, hands nothing to save_db and leaves the file as it was.
C17_MixedDimensionsRejected ==
    [][ LET l == load_db(file, cursor[result'.store])
        IN  (result'.op = "insert" /\ l.ok /\ result'.called /\ embed(result'.resp).ok
                /\ Len(result'.resp.embedding) # l.db.embeddings.ncols)
            => (result'.status = "err" /\ result'.saved = <<>> /\ file' = file)
      ]_vars

\* C14: nothing orders the two writers: the insert that saves last writes
\* the collection it loaded plus its own record over whatever the other
\* insert saved in between (last writer wins), so that after both stores
\* loaded before either saved, the file holds one of the two records.
C14_LastWriterWins ==
    [][ \A s \in Stores :
          (pending[s].active /\ ~pending'[s].active /\ result'.status = "ok")
          => /\ NextDB.ok
             /\ NextDB.db.memories
                  = Append(pending[s].db.memories,
                           Memory(pending[s].memory, pending[s].description))
             /\ NextDB.db.embeddings.data
                  = pending[s].db.embeddings.data \o pending[s].embedding
      ]_vars

\* The lost update: two inserts of different records returned Ok since the
\* file was empty, both are over, and the file holds only the second.
C14_Witness ==
    /\ Len(inserted) = 2
    /\ inserted[1] # inserted[2]
    /\ \A s \in Stores : ~pending[s].active
    /\ result.op = "insert"
    /\ result.status = "ok"
    /\ CurrentDB.ok
    /\ CurrentDB.db.memories = << inserted[2] >>

====
